---- MODULE Spec2Model ----
(***************************************************************************)
(* Model of the acquisitions backend's authentication core:                *)
(*   src/src/services/auth.service.js  hashPassword, comparePassword,      *)
(*                                     createUser, authenticateUser and    *)
(*                                     the signup request handler          *)
(*   src/unnamed/part_000              getAllUsers                         *)
(*                                                                         *)
(* Every call is an async function running on behalf of one request.  A    *)
(* call gives up control at each `await`, so the calls of concurrent       *)
(* requests interleave at exactly those points; the code between two       *)
(* awaits is one atomic step.                                              *)
(***************************************************************************)
EXTENDS Integers, Sequences, FiniteSets, TLC

(***************************************************************************)
(* Bounds of the model.                                                    *)
(***************************************************************************)
NumRequests == 2     \* requests in flight at the same time
MaxUsers == 2        \* rows the users table may hold

Requests == 1..NumRequests

Names == {"A"}
Emails == {"a@x.com", "b@x.com"}
\* A plaintext password is a one-element sequence, a digest a longer one, so
\* that the two can be told apart and compared.
Passwords == {<<"p1">>, <<"wrong">>}
Salts == {"salt1"}
Roles == {"user", "admin"}

(***************************************************************************)
(* Error messages, as thrown by the code.                                  *)
(***************************************************************************)
HashErrorMsg == "Error hashing the password"
CompareErrorMsg == "Error comparing the password"
DuplicateMsg == "User with this email already exists"
InvalidCredentialsMsg == "Invalid email or password"
\* errors raised by collaborators outside the service
StorageErrorMsg == "storage error"
TypeErrorMsg == "validationResult.data is not a function"

(***************************************************************************)
(* Credential hasher.  bcrypt.hash(password, 10) draws a fresh salt and    *)
(* returns a digest that carries the version/cost prefix and the salt;     *)
(* bcrypt.compare re-derives the digest from the candidate and the salt    *)
(* found in the digest.  The one-way function is modelled by a free        *)
(* constructor: the digest of (salt, password) is determined by both and   *)
(* matches no other password.                                              *)
(***************************************************************************)
BcryptPrefix == "$2b$10$"

hashPassword(password, salt) == <<BcryptPrefix, salt>> \o password

comparePassword(password, hashedPassword) ==
    /\ Len(hashedPassword) > 2
    /\ hashedPassword[1] = BcryptPrefix
    /\ SubSeq(hashedPassword, 3, Len(hashedPassword)) = password

(***************************************************************************)
(* Rows, projections and the results of calls.                             *)
(***************************************************************************)
\* .returning({...}) of createUser
ReturningColumns == {"id", "name", "email", "role", "created_at"}
\* db.select({...}) of getAllUsers
ListColumns == {"id", "email", "name", "role", "created_at", "updated_at"}

Project(row, cols) == [c \in cols |-> row[c]]

\* const { password: _password, ...safeUser } = user
StripPassword(user) == Project(user, (DOMAIN user) \ {"password"})

Pending == [kind |-> "pending"]
Resolved(v) == [kind |-> "resolved", value |-> v]
Rejected(msg) == [kind |-> "rejected", error |-> msg]

NoArgs == [none |-> TRUE]
NoLocal == [none |-> TRUE]
NoResponse == [status |-> 0]
NoError == "none"

VARIABLES
    users,      \* the rows of the users table
    nextId,     \* the table's serial id / insertion clock
    pc,         \* where each request's call stands
    op,         \* the operation the request runs
    args,       \* the call's arguments (signup: the request body)
    local,      \* the call's local constants (existingUser / password_hash / user)
    result,     \* the promise the call returned
    res,        \* signup: the HTTP response written
    nextArg,    \* signup: the error passed to next(), if any
    selects,    \* number of db.select() performed by the current call
    inserts,    \* number of db.insert() issued by the current call
    added,      \* the rows the current call has added to the table
    atStart     \* rows with the call's email when the call began

vars == <<users, nextId, pc, op, args, local, result, res, nextArg, selects, inserts, added, atStart>>

WithEmail(email) == {u \in users : u["email"] = email}

Init ==
    /\ users = {}
    /\ nextId = 1
    /\ pc = [r \in Requests |-> "idle"]
    /\ op = [r \in Requests |-> "none"]
    /\ args = [r \in Requests |-> NoArgs]
    /\ local = [r \in Requests |-> NoLocal]
    /\ result = [r \in Requests |-> Pending]
    /\ res = [r \in Requests |-> NoResponse]
    /\ nextArg = [r \in Requests |-> NoError]
    /\ selects = [r \in Requests |-> 0]
    /\ inserts = [r \in Requests |-> 0]
    /\ added = [r \in Requests |-> {}]
    /\ atStart = [r \in Requests |-> {}]

\* A request is free to start a call when it runs none.
Free(r) == pc[r] \in {"idle", "done"}

Enter(r, operation, a, first) ==
    /\ Free(r)
    /\ pc' = [pc EXCEPT ![r] = first]
    /\ op' = [op EXCEPT ![r] = operation]
    /\ args' = [args EXCEPT ![r] = a]
    /\ local' = [local EXCEPT ![r] = NoLocal]
    /\ result' = [result EXCEPT ![r] = Pending]
    /\ res' = [res EXCEPT ![r] = NoResponse]
    /\ nextArg' = [nextArg EXCEPT ![r] = NoError]
    /\ selects' = [selects EXCEPT ![r] = 0]
    /\ inserts' = [inserts EXCEPT ![r] = 0]
    /\ added' = [added EXCEPT ![r] = {}]
    /\ atStart' = [atStart EXCEPT ![r] = IF "email" \in DOMAIN a THEN WithEmail(a["email"]) ELSE {}]
    /\ UNCHANGED <<users, nextId>>

Finish(r, outcome) ==
    /\ pc' = [pc EXCEPT ![r] = "done"]
    /\ result' = [result EXCEPT ![r] = outcome]

(***************************************************************************)
(* createUser({ name, email, password, role = 'user' })                    *)
(***************************************************************************)
DefaultRole == "user"

\* the destructuring of the parameter, with the default of role
CreateUserParams(a) ==
    [name |-> a["name"], email |-> a["email"], password |-> a["password"],
     role |-> IF "role" \in DOMAIN a THEN a["role"] ELSE DefaultRole]

CreateUserInputs ==
    [name : Names, email : Emails, password : Passwords] \cup
    [name : Names, email : {"b@x.com"}, password : {<<"p1">>}, role : {"admin"}]

\* createUser calls that have not inserted yet; keeps the table within MaxUsers
PendingCreates == {r \in Requests : op[r] = "createUser" /\ pc[r] # "done"}

createUserCall(r) ==
    /\ Cardinality(users) + Cardinality(PendingCreates) < MaxUsers
    /\ \E a \in CreateUserInputs : Enter(r, "createUser", a, "cu_select")

\* a lookup that filters on the wrong column
ExistingUserByName(email) == {u \in users : u["name"] = email}

\* line 27: db.select().from(users).where(eq(users.email, email)).limit(1)
ExistingUser(email) == WithEmail(email)

\* line 27-29: the lookup and the check of its result
createUserSelect(r) ==
    /\ pc[r] = "cu_select"
    /\ selects' = [selects EXCEPT ![r] = @ + 1]
    /\ IF ExistingUser(args[r]["email"]) # {}
       THEN /\ Finish(r, Rejected(DuplicateMsg))
            /\ UNCHANGED local
       ELSE /\ pc' = [pc EXCEPT ![r] = "cu_hash"]
            /\ UNCHANGED <<local, result>>
    /\ UNCHANGED <<users, nextId, op, args, res, nextArg, inserts, added, atStart>>

\* line 31: const password_hash = await hashPassword(password)
createUserHash(r) ==
    /\ pc[r] = "cu_hash"
    /\ \E salt \in Salts :
         local' = [local EXCEPT ![r] =
                     [password_hash |-> hashPassword(CreateUserParams(args[r]).password, salt)]]
    /\ pc' = [pc EXCEPT ![r] = "cu_insert"]
    /\ UNCHANGED <<users, nextId, op, args, result, res, nextArg, selects, inserts, added, atStart>>

\* values that keep the password as it was given
InsertValuesPlaintext(p, password_hash) ==
    [name |-> p.name, email |-> p.email, password |-> p.password, role |-> p.role]

\* line 35: the values db.insert(users) is given
InsertValues(p, password_hash) ==
    [name |-> p.name, email |-> p.email, password |-> password_hash, role |-> p.role]

NewRow(values, id) ==
    [id |-> id, name |-> values.name, email |-> values.email,
     password |-> values.password, role |-> values.role,
     created_at |-> id, updated_at |-> id]

\* an insert that replaces the row holding the same email
TableAfterUpsert(table, row) ==
    {u \in table : u["email"] # row["email"]} \cup {row}

\* line 33-35: db.insert(users).values(...) adds one row
TableAfterInsert(table, row) == table \cup {row}

\* line 33-39: the insert, its returning projection and the return
createUserInsert(r) ==
    /\ pc[r] = "cu_insert"
    /\ LET row == NewRow(InsertValues(CreateUserParams(args[r]), local[r].password_hash), nextId)
       IN /\ users' = TableAfterInsert(users, row)
          /\ nextId' = nextId + 1
          /\ Finish(r, Resolved(Project(row, ReturningColumns)))
    /\ inserts' = [inserts EXCEPT ![r] = @ + 1]
    /\ added' = [added EXCEPT ![r] = @ \cup (users' \ users)]
    /\ UNCHANGED <<op, args, local, res, nextArg, selects, atStart>>

(***************************************************************************)
(* authenticateUser({ email, password })                                   *)
(***************************************************************************)
AuthenticateInputs == [email : Emails, password : Passwords]

authenticateUserCall(r) ==
    \E a \in AuthenticateInputs : Enter(r, "authenticateUser", a, "au_select")

\* a message of its own for the unknown email
UserNotFoundError == "User not found"

\* the error thrown when the lookup finds no user (line 50-52)
UnknownEmailError == InvalidCredentialsMsg

\* the error thrown when the password does not match (line 56-58)
WrongPasswordError == InvalidCredentialsMsg

\* line 48-52: the lookup (limit 1, no ordering: any matching row) and its check
authenticateUserSelect(r) ==
    /\ pc[r] = "au_select"
    /\ selects' = [selects EXCEPT ![r] = @ + 1]
    /\ IF WithEmail(args[r]["email"]) = {}
       THEN /\ Finish(r, Rejected(UnknownEmailError))
            /\ UNCHANGED local
       ELSE /\ \E user \in WithEmail(args[r]["email"]) :
                 local' = [local EXCEPT ![r] = [user |-> user]]
            /\ pc' = [pc EXCEPT ![r] = "au_compare"]
            /\ UNCHANGED result
    /\ UNCHANGED <<users, nextId, op, args, res, nextArg, inserts, added, atStart>>

\* the row as it was read
WholeUser(user) == user

\* line 60-64: what a successful call returns
AuthenticatedUser(user) == StripPassword(user)

\* line 54-64: the comparison, its check and the return
authenticateUserCompare(r) ==
    /\ pc[r] = "au_compare"
    /\ LET user == local[r].user
           isMatch == comparePassword(args[r]["password"], user["password"])
       IN IF ~isMatch
          THEN Finish(r, Rejected(WrongPasswordError))
          ELSE Finish(r, Resolved(AuthenticatedUser(user)))
    /\ UNCHANGED <<users, nextId, op, args, local, res, nextArg, selects, inserts, added, atStart>>

(***************************************************************************)
(* getAllUsers()                                                           *)
(***************************************************************************)
getAllUsersCall(r) == Enter(r, "getAllUsers", NoArgs, "ga_select")

getAllUsersSelect(r) ==
    /\ pc[r] = "ga_select"
    /\ selects' = [selects EXCEPT ![r] = @ + 1]
    /\ Finish(r, Resolved({Project(u, ListColumns) : u \in users}))
    /\ UNCHANGED <<users, nextId, op, args, local, res, nextArg, inserts, added, atStart>>

(***************************************************************************)
(* The signup request handler.  It contains no await: the whole handler    *)
(* runs as one step.                                                       *)
(***************************************************************************)
Undefined == "undefined"

SignupBodies ==
    [name : Names, email : {"a@x.com"}, password : {<<"p1">>}] \cup
    [name : Names, email : {"a@x.com"}, password : {<<"p1">>}, role : {"admin", "root"}] \cup
    [name : Names, email : {"a@x.com"}]

\* the fields signUpSchema finds fault with
SchemaIssues(body) ==
    ({"name", "email", "password"} \ DOMAIN body) \cup
    (IF "role" \in DOMAIN body /\ body["role"] \notin Roles THEN {"role"} ELSE {})

\* signUpSchema.safeParse(req.body): a result, never an exception
safeParse(body) ==
    IF SchemaIssues(body) = {}
    THEN [success |-> TRUE, data |-> body]
    ELSE [success |-> FALSE, error |-> SchemaIssues(body)]

formatValidationError(error) == error

signupCall(r) ==
    \E body \in SignupBodies : Enter(r, "signup", body, "su_handle")

\* line 79-84: the response to a body that fails validation
ValidationFailedResponse(validationResult) ==
    [status |-> 400,
     body |-> [error |-> "Validation Failded",
               details |-> formatValidationError(validationResult.error)]]

\* line 87-95: the catch block: the response written, if any, and the error
\* passed to next(), if any
SignupCatch(e) ==
    IF e = DuplicateMsg
    THEN [res |-> [status |-> 409, body |-> [error |-> "Email already exists"]],
          next |-> NoError]
    ELSE [res |-> NoResponse, next |-> e]

\* the handler without the return of line 80: it goes on to line 86, where
\* validationResult.data is undefined
SignupOutcomeNoReturn(body) ==
    LET validationResult == safeParse(body)
    IN IF ~validationResult.success
       THEN [res |-> ValidationFailedResponse(validationResult),
             next |-> SignupCatch(TypeErrorMsg).next]
       ELSE SignupCatch(TypeErrorMsg)

\* line 77-95: the response written and the error passed to next().  Line 86
\* calls validationResult.data, which is the parsed object and not a
\* function: a TypeError is thrown there and caught at line 87.
SignupOutcome(body) ==
    LET validationResult == safeParse(body)
    IN IF ~validationResult.success
       THEN [res |-> ValidationFailedResponse(validationResult), next |-> NoError]
       ELSE SignupCatch(TypeErrorMsg)

signup(r) ==
    /\ pc[r] = "su_handle"
    /\ res' = [res EXCEPT ![r] = SignupOutcome(args[r]).res]
    /\ nextArg' = [nextArg EXCEPT ![r] = SignupOutcome(args[r]).next]
    /\ Finish(r, Resolved(Undefined))
    /\ UNCHANGED <<users, nextId, op, args, local, selects, inserts, added, atStart>>

(***************************************************************************)
(* Failures of the collaborators: bcrypt and the database may throw.       *)
(***************************************************************************)
\* line 10-13: hashPassword logs and throws its own error
hashPasswordFails(r) ==
    /\ pc[r] = "cu_hash"
    /\ Finish(r, Rejected(HashErrorMsg))
    /\ UNCHANGED <<users, nextId, op, args, local, res, nextArg, selects, inserts, added, atStart>>

\* line 19-22: comparePassword logs and throws its own error
comparePasswordFails(r) ==
    /\ pc[r] = "au_compare"
    /\ Finish(r, Rejected(CompareErrorMsg))
    /\ UNCHANGED <<users, nextId, op, args, local, res, nextArg, selects, inserts, added, atStart>>

\* a db.select() that throws: the catch block logs and rethrows
selectFails(r) ==
    /\ pc[r] \in {"cu_select", "au_select", "ga_select"}
    /\ selects' = [selects EXCEPT ![r] = @ + 1]
    /\ Finish(r, Rejected(StorageErrorMsg))
    /\ UNCHANGED <<users, nextId, op, args, local, res, nextArg, inserts, added, atStart>>

\* a db.insert() that throws stores nothing; line 40-43 logs and rethrows
insertFails(r) ==
    /\ pc[r] = "cu_insert"
    /\ inserts' = [inserts EXCEPT ![r] = @ + 1]
    /\ Finish(r, Rejected(StorageErrorMsg))
    /\ UNCHANGED <<users, nextId, op, args, local, res, nextArg, selects, added, atStart>>

Next ==
    \E r \in Requests :
        \/ createUserCall(r)
        \/ createUserSelect(r)
        \/ createUserHash(r)
        \/ createUserInsert(r)
        \/ authenticateUserCall(r)
        \/ authenticateUserSelect(r)
        \/ authenticateUserCompare(r)
        \/ getAllUsersCall(r)
        \/ getAllUsersSelect(r)
        \/ signupCall(r)
        \/ signup(r)

Faults ==
    \E r \in Requests :
        \/ hashPasswordFails(r)
        \/ comparePasswordFails(r)
        \/ selectFails(r)
        \/ insertFails(r)

NextWithFaults == Next \/ Faults

\* the collaborators never fail
Spec == Init /\ [][Next]_vars

\* the collaborators may fail at any await
FaultSpec == Init /\ [][NextWithFaults]_vars

(***************************************************************************)
(* Properties.                                                             *)
(***************************************************************************)
Done(r, operation) == pc[r] = "done" /\ op[r] = operation

IsResolved(r) == result[r].kind = "resolved"
IsRejected(r) == result[r].kind = "rejected"

\* the request body passes signUpSchema
ValidBody(r) == safeParse(args[r]).success

\* C1: a createUser call whose email was already stored when the call began
\* issues no insert and adds no row, and ends rejected with 'User with this
\* email already exists'.
C1_DuplicateEmailRejected ==
    \A r \in Requests :
        (op[r] = "createUser" /\ atStart[r] # {}) =>
            /\ inserts[r] = 0
            /\ added[r] = {}
            /\ pc[r] = "done" => result[r] = Rejected(DuplicateMsg)

C1_Witness ==
    \E r \in Requests :
        /\ Done(r, "createUser")
        /\ atStart[r] # {}
        /\ selects[r] = 1
        /\ result[r] = Rejected(DuplicateMsg)

\* C2: no two stored user records have the same email, however the lookups
\* and inserts of concurrent createUser calls interleave.
C2_EmailUnique ==
    \A u, v \in users : u["email"] = v["email"] => u = v

\* C3: an authenticateUser call made after createUser stored a user with
\* email e and password p resolves to that user's record when it is given e
\* and p, and rejects with 'Invalid email or password' when it is given e and
\* another password.
C3_SigninAfterSignup ==
    \A r \in Requests :
        Done(r, "authenticateUser") =>
            \A u \in atStart[r] :
                IF comparePassword(args[r]["password"], u["password"])
                THEN result[r] = Resolved(StripPassword(u))
                ELSE result[r] = Rejected(InvalidCredentialsMsg)

\* C4: an authenticateUser call that fails because no user has the email and
\* one that fails because the password does not match the user found reject
\* with the same error, 'Invalid email or password'.
C4_EnumerationResistance ==
    \A r, q \in Requests :
        ( /\ Done(r, "authenticateUser") /\ IsRejected(r) /\ local[r] = NoLocal
          /\ Done(q, "authenticateUser") /\ IsRejected(q) /\ local[q] # NoLocal )
        => /\ result[r] = result[q]
           /\ result[r] = Rejected(InvalidCredentialsMsg)

C4_Witness ==
    \E r, q \in Requests :
        /\ Done(r, "authenticateUser") /\ IsRejected(r) /\ local[r] = NoLocal
        /\ Done(q, "authenticateUser") /\ IsRejected(q) /\ local[q] # NoLocal
        /\ ~comparePassword(args[q]["password"], local[q].user["password"])

\* C5: no user record returned by a successful createUser, authenticateUser
\* or getAllUsers call has a password field.
C5_NoPasswordReturned ==
    \A r \in Requests :
        IsResolved(r) =>
            /\ op[r] \in {"createUser", "authenticateUser"} =>
                   "password" \notin DOMAIN result[r].value
            /\ op[r] = "getAllUsers" =>
                   \A row \in result[r].value : "password" \notin DOMAIN row

C5_Witness ==
    \E r, q \in Requests :
        /\ Done(r, "authenticateUser") /\ IsResolved(r)
        /\ "password" \in DOMAIN local[r].user
        /\ Done(q, "getAllUsers") /\ IsResolved(q) /\ result[q].value # {}

\* C6: a signup request with a valid body whose email matched no stored user
\* is answered with status 201 and a body {id, name, email, role, created_at},
\* and a user with that email is stored afterwards.
C6_SignupCreated ==
    \A r \in Requests :
        (Done(r, "signup") /\ ValidBody(r) /\ atStart[r] = {}) =>
            /\ res[r].status = 201
            /\ DOMAIN res[r].body = ReturningColumns
            /\ WithEmail(args[r]["email"]) # {}

\* C7: a signup request with a valid body whose email is that of a stored
\* user is answered with status 409 and error 'Email already exists', and no
\* error is passed to next().
C7_SignupConflict ==
    \A r \in Requests :
        (Done(r, "signup") /\ ValidBody(r) /\ atStart[r] # {}) =>
            /\ res[r].status = 409
            /\ res[r].body = [error |-> "Email already exists"]
            /\ nextArg[r] = NoError

\* C8: a signup request whose body fails validation is answered with status
\* 400 and the formatted field errors; the handler does not throw, does not
\* call next(), and neither reads nor writes the users table.
C8_SignupValidationFails ==
    \A r \in Requests :
        (Done(r, "signup") /\ ~ValidBody(r)) =>
            /\ res[r].status = 400
            /\ res[r].body.details = formatValidationError(safeParse(args[r]).error)
            /\ nextArg[r] = NoError
            /\ IsResolved(r)
            /\ selects[r] = 0
            /\ inserts[r] = 0
            /\ added[r] = {}

C8_Witness ==
    \E r \in Requests :
        /\ Done(r, "signup")
        /\ ~ValidBody(r)
        /\ res[r].status = 400
        /\ users # {}

\* C9: every stored record stays stored and unchanged, and a step of an
\* authenticateUser or getAllUsers call leaves the table as it is.
C9_RecordsOnlyCreated ==
    [][ /\ users \subseteq users'
        /\ \A r \in Requests :
             (pc'[r] # pc[r] /\ op'[r] \in {"authenticateUser", "getAllUsers"})
                 => users' = users ]_vars

C9_Witness ==
    \E r, q \in Requests :
        /\ users # {}
        /\ Done(r, "authenticateUser") /\ IsRejected(r)
        /\ Done(q, "getAllUsers")

\* C10: a createUser call looks up once and inserts at most once.  When it
\* resolves it has added exactly one row, which holds the digest of the
\* password and not the password, and role 'user' when no role was given.
\* When it rejects it has added no row and the error is the one that was
\* thrown inside it.
C10_SingleAttempt ==
    \A r \in Requests :
        op[r] = "createUser" =>
            /\ selects[r] <= 1
            /\ inserts[r] <= 1
            /\ (pc[r] = "done" /\ IsResolved(r)) =>
                   /\ inserts[r] = 1
                   /\ Cardinality(added[r]) = 1
                   /\ \A row \in added[r] :
                        /\ row \in users
                        /\ row["password"] # args[r]["password"]
                        /\ comparePassword(args[r]["password"], row["password"])
                        /\ row["role"] = IF "role" \in DOMAIN args[r]
                                         THEN args[r]["role"] ELSE "user"
                        /\ result[r].value = Project(row, ReturningColumns)
            /\ (pc[r] = "done" /\ IsRejected(r)) =>
                   /\ added[r] = {}
                   /\ result[r].error \in {DuplicateMsg, HashErrorMsg, StorageErrorMsg}
                   /\ result[r].error = HashErrorMsg => (selects[r] = 1 /\ inserts[r] = 0)
                   /\ inserts[r] = 1 => result[r].error = StorageErrorMsg

C10_Witness ==
    \E r, q \in Requests :
        /\ Done(r, "createUser") /\ IsResolved(r) /\ "role" \notin DOMAIN args[r]
        /\ Done(q, "createUser") /\ IsRejected(q) /\ result[q].error = HashErrorMsg

====
